---- MODULE Spec2Model ----
(***************************************************************************)
(* Model of ml-100k.py: the MovieLens 100K load / join / statistics /      *)
(* plot script, run against a MongoDB database that persists between runs. *)
(*                                                                         *)
(* A collection is a bag of documents (the _id that insert_many and $out   *)
(* generate is what tells equal documents apart; it is represented by the  *)
(* multiplicity).  A flat file is the sequence of its records.             *)
(***************************************************************************)
EXTENDS Integers, Sequences, FiniteSets, Bags, TLC

\* ---------------------------------------------------------------- bounds
MaxUsers    == 2    \* records in u.user
MaxMovies   == 2    \* records in u.item
MaxRatings  == 2    \* records in u.data
MaxRuns     == 2    \* executions of the script against the same database
MaxFailures == 1    \* exceptions raised by insert_many / aggregate in total
MaxAge      == 120  \* largest age handed to age_to_group

\* ------------------------------------------------------ program constants
GenreCount == 19

GenreIdx == 0 .. (GenreCount - 1)

\* ------------------------------------------------------------ input data
Flags(S) == [i \in GenreIdx |-> IF i \in S THEN 1 ELSE 0]

Profiles ==
    << [age |-> 7,  gender |-> "F", occupation |-> "student"],
       [age |-> 23, gender |-> "M", occupation |-> "student"],
       [age |-> 23, gender |-> "F", occupation |-> "engineer"] >>

GenreSets == << {1, 18}, {1}, {} >>

RatingValues == << 5, 2, 4 >>

Cyc(s, i) == s[((i - 1) % Len(s)) + 1]

\* one record of u.user as read_csv(...).to_dict("records") gives it
UserRecord(i) ==
    [user_id |-> i, age |-> Cyc(Profiles, i).age, gender |-> Cyc(Profiles, i).gender,
     occupation |-> Cyc(Profiles, i).occupation]

\* one record of u.item: movie_id and the 19 genre flags
MovieRecord(i) == [movie_id |-> i, genre |-> Flags(Cyc(GenreSets, i))]

\* one record of u.data, the i-th
RatingRecord(u, m, i) ==
    [user_id |-> u, movie_id |-> m, rating |-> Cyc(RatingValues, i), timestamp |-> i]

UserFiles == {[i \in 1 .. n |-> UserRecord(i)] : n \in 1 .. MaxUsers}

MovieFiles == {[i \in 1 .. n |-> MovieRecord(i)] : n \in 1 .. MaxMovies}

\* the files u.data can be: up to MaxRatings ratings of users and movies of the
\* other two files, listed by (user, movie)
RatingFiles(nu, nm) ==
    LET Pair   == (1 .. nu) \X (1 .. nm)
        Rank(p) == (p[1] - 1) * nm + p[2]
    IN  UNION {{[i \in 1 .. n |-> RatingRecord(c[i][1], c[i][2], i)] :
                  c \in {f \in [1 .. n -> Pair] :
                           \A i \in 1 .. (n - 1) : Rank(f[i]) <= Rank(f[i + 1])}} :
               n \in 1 .. MaxRatings}

\* ------------------------------------------------------------ bag helpers
RECURSIVE SumOver(_, _)
SumOver(S, f) ==
    IF S = {} THEN 0
    ELSE LET x == CHOOSE y \in S : TRUE IN f[x] + SumOver(S \ {x}, f)

RECURSIVE SeqToBag(_)
SeqToBag(s) ==
    IF s = <<>> THEN EmptyBag
    ELSE SetToBag({Head(s)}) (+) SeqToBag(Tail(s))

\* the bag that holds n copies of what B holds
Times(B, n) == IF n = 0 THEN EmptyBag ELSE [d \in DOMAIN B |-> n * B[d]]

RECURSIVE BagSum(_, _)
BagSum(S, g) ==
    IF S = {} THEN EmptyBag
    ELSE LET x == CHOOSE y \in S : TRUE IN g[x] (+) BagSum(S \ {x}, g)

\* every document d of B replaced by the documents g[d], copies kept
FlatMap(B, g) == BagSum(DOMAIN B, [d \in DOMAIN B |-> Times(g[d], B[d])])

One(d) == SetToBag({d})

Count(B) == BagCardinality(B)

\* ------------------------------------------------- aggregation stages
\* a $lookup that leaves out the match of localField with foreignField
Lookup_unmatched(d, from, localField, foreignField, as) ==
    (as :> [e \in DOMAIN from |-> from[e]]) @@ d

\* {"$lookup": {from, localField, foreignField, as}} applied to one document:
\* the document gains the array of the documents of `from` that match
Lookup(d, from, localField, foreignField, as) ==
    LET hit == {e \in DOMAIN from : e[foreignField] = d[localField]}
    IN  (as :> [e \in hit |-> from[e]]) @@ d

\* {"$unwind": "$field"} where the field holds an array of documents
\* (kept as a bag): one output per element, none when the array is empty
Unwind(d, field) ==
    BagSum(DOMAIN d[field],
           [e \in DOMAIN d[field] |-> Times(One([d EXCEPT ![field] = e]), d[field][e])])

\* the $project of populate_user_movie_info_if_needed
ProjectJoin(d) ==
    [user_id |-> d.user_id, movie_id |-> d.movie_id, rating |-> d.rating,
     age |-> d.user_info.age, gender |-> d.user_info.gender,
     occupation |-> d.user_info.occupation,
     genre |-> [i \in 0 .. 18 |-> d.movie_info.genre[i]]]

\* what the join pipeline hands to $out
JoinPipeline(ratings, users, movies) ==
    LET s1 == FlatMap(ratings, [d \in DOMAIN ratings |-> One(Lookup(d, users, "user_id", "user_id", "user_info"))])
        s2 == FlatMap(s1, [d \in DOMAIN s1 |-> Unwind(d, "user_info")])
        s3 == FlatMap(s2, [d \in DOMAIN s2 |-> One(Lookup(d, movies, "movie_id", "movie_id", "movie_info"))])
        s4 == FlatMap(s3, [d \in DOMAIN s3 |-> Unwind(d, "movie_info")])
    IN  FlatMap(s4, [d \in DOMAIN s4 |-> One(ProjectJoin(d))])

\* the first $project of build_and_insert_stats
ProjectFlags(d, group_field, genre_count) ==
    (group_field :> d[group_field]) @@
    [rating |-> d.rating,
     genre_flags |-> [i \in 1 .. genre_count |-> [index |-> i - 1, flag |-> d.genre[i - 1]]]]

\* {"$unwind": "$genre_flags"}: the array is a list here
UnwindFlags(d) ==
    BagSum(1 .. Len(d.genre_flags),
           [i \in 1 .. Len(d.genre_flags) |-> One([d EXCEPT !.genre_flags = d.genre_flags[i]])])

\* a pipeline without the $match stage
MatchFlag_absent(d) == One(d)

\* {"$match": {"genre_flags.flag": 1}}
MatchFlag(d) == IF d.genre_flags.flag = 1 THEN One(d) ELSE EmptyBag

\* {"$round": [x, 3]} of the quotient num / den, in thousandths; $round
\* rounds a tie to the even digit
Round3(num, den) ==
    LET q == (1000 * num) \div den
        r == (1000 * num) % den
    IN  IF 2 * r > den \/ (2 * r = den /\ q % 2 = 1) THEN q + 1 ELSE q

\* $group on (group_field, genre index) with $avg and {"$sum": 1}
Group(B, group_field) ==
    LET KeyOf(d) == <<d[group_field], d.genre_flags.index>>
        keys     == {KeyOf(d) : d \in DOMAIN B}
        In(k)    == {d \in DOMAIN B : KeyOf(d) = k}
    IN  SetToBag({[_id |-> k,
                   sum |-> SumOver(In(k), [d \in In(k) |-> B[d] * d.rating]),
                   count |-> SumOver(In(k), [d \in In(k) |-> B[d]])] : k \in keys})

\* the final $project of build_and_insert_stats
ProjectStats(g, group_field) ==
    (group_field :> g._id[1]) @@
    [genre_index |-> g._id[2], avg_rating |-> Round3(g.sum, g.count), count |-> g.count]

\* what the statistics pipeline hands to $out
StatsPipeline(source, group_field, genre_count) ==
    LET s1 == FlatMap(source, [d \in DOMAIN source |-> One(ProjectFlags(d, group_field, genre_count))])
        s2 == FlatMap(s1, [d \in DOMAIN s1 |-> UnwindFlags(d)])
        s3 == FlatMap(s2, [d \in DOMAIN s2 |-> MatchFlag(d)])
        s4 == Group(s3, group_field)
    IN  FlatMap(s4, [g \in DOMAIN s4 |-> One(ProjectStats(g, group_field))])

\* ------------------------------------------------------- age_to_group
Digit(n) == <<"0", "1", "2", "3", "4", "5", "6", "7", "8", "9">>[n + 1]

RECURSIVE Str(_)
\* str(n) of a non-negative int: its decimal digits
Str(n) == IF n < 10 THEN <<Digit(n)>> ELSE Str(n \div 10) \o <<Digit(n % 10)>>

\* the first branch taken for age 10 as well
age_to_group_le(age) ==
    IF age <= 10 THEN <<"0", "-", "9">>
    ELSE LET lower == (age \div 10) * 10
         IN  Str(lower) \o <<"-">> \o Str(lower + 9)

age_to_group(age) ==
    IF age < 10 THEN <<"0", "-", "9">>
    ELSE LET lower == (age \div 10) * 10
         IN  Str(lower) \o <<"-">> \o Str(lower + 9)

\* ---------------------------------------------------------------- state
VARIABLES
    files,     \* the records of u.user, u.item and u.data
    db,        \* the seven collections of database movielens_100k
    pc,        \* the statement the script is at
    out,       \* what this run has printed
    calls,     \* the writes this run has asked of the database
    charts,    \* the group values plot_statistics drew charts for
    runs,      \* executions started
    failures   \* exceptions raised so far

vars == <<files, db, pc, out, calls, charts, runs, failures>>

Collections ==
    {"users", "movies", "ratings", "ratings_userinfo_genres",
     "age_genre_rating_stats", "gender_genre_rating_stats", "occupation_genre_rating_stats"}

\* estimated_document_count()
estimated_document_count(col) == Count(col)

NoCharts == [age |-> {}, gender |-> {}, occupation |-> {}]

Init ==
    /\ \E u \in UserFiles, m \in MovieFiles :
         \E r \in RatingFiles(Len(u), Len(m)) :
            files = [users |-> u, movies |-> m, ratings |-> r]
    /\ db = [c \in Collections |-> EmptyBag]
    /\ pc = "populate_data"
    /\ out = <<>>
    /\ calls = <<>>
    /\ charts = NoCharts
    /\ runs = 1
    /\ failures = 0

\* ------------------------------------------------------- printed lines
\* a printed line is <<its text, the name formatted into it>>
DataPopulationComplete == <<"Data population complete.", "">>

JoinPopulated == <<"has been created and populated.", "ratings_userinfo_genres">>

StatsInserted(target) == <<"Statistics inserted into", target>>

AllTasksCompleted == <<"All tasks completed successfully.", "">>

\* ------------------------------------------------------ database calls
\* col.insert_many(docs): either every document is inserted, or the call
\* raises after the server has taken the first k of them
insert_many(col, docs, mayRaise) ==
    {[col |-> col (+) SeqToBag(docs), raised |-> FALSE]} \cup
    (IF mayRaise
     THEN {[col |-> col (+) SeqToBag(SubSeq(docs, 1, k)), raised |-> TRUE] : k \in 0 .. Len(docs)}
     ELSE {})

\* aggregate(pipeline ending in $out): the target is replaced by the result,
\* or the call raises and the target is left as it was
aggregate_out(target, result, mayRaise) ==
    {[col |-> result, raised |-> FALSE]} \cup
    (IF mayRaise THEN {[col |-> target, raised |-> TRUE]} ELSE {})

MayRaise == failures < MaxFailures

Raise(o) == failures' = failures + (IF o.raised THEN 1 ELSE 0)

\* ------------------------------------------------------------- actions
\* populate_data_if_needed, the check at its head
populate_data_if_needed ==
    /\ pc = "populate_data"
    /\ IF /\ estimated_document_count(db.users) > 0
          /\ estimated_document_count(db.movies) > 0
          /\ estimated_document_count(db.ratings) > 0
       THEN /\ out' = Append(out, <<"Data already exists in MongoDB collections. Skipping data load.", "">>)
            /\ pc' = "join"
       ELSE /\ out' = out
            /\ pc' = "load_users"
    /\ UNCHANGED <<files, db, calls, charts, runs, failures>>

\* a try/except block whose handler returns from the function
load_abort(name, warning, next, last) ==
    \E o \in insert_many(db[name], files[name], MayRaise) :
       /\ db' = [db EXCEPT ![name] = o.col]
       /\ calls' = Append(calls, <<"insert_many", name>>)
       /\ out' = (IF o.raised THEN Append(out, warning) ELSE out \o last)
       /\ Raise(o)
       /\ pc' = (IF o.raised THEN "join" ELSE next)
       /\ UNCHANGED <<files, charts, runs>>

\* one try/except block of populate_data_if_needed
load(name, warning, next, last) ==
    \E o \in insert_many(db[name], files[name], MayRaise) :
       /\ db' = [db EXCEPT ![name] = o.col]
       /\ calls' = Append(calls, <<"insert_many", name>>)
       /\ out' = (IF o.raised THEN Append(out, warning) ELSE out) \o last
       /\ Raise(o)
       /\ pc' = next
       /\ UNCHANGED <<files, charts, runs>>

load_users ==
    /\ pc = "load_users"
    /\ load("users", <<"Warning: could not insert into", "users">>, "load_movies", <<>>)

load_movies ==
    /\ pc = "load_movies"
    /\ load("movies", <<"Warning: could not insert into", "movies">>, "load_ratings", <<>>)

load_ratings ==
    /\ pc = "load_ratings"
    /\ load("ratings", <<"Warning: could not insert into", "ratings">>, "join",
            <<DataPopulationComplete>>)

\* the join without its "already populated" check
populate_user_movie_info_unchecked ==
    /\ pc = "join"
    /\ \E o \in aggregate_out(db.ratings_userinfo_genres,
                              JoinPipeline(db.ratings, db.users, db.movies), MayRaise) :
          /\ db' = [db EXCEPT !.ratings_userinfo_genres = o.col]
          /\ calls' = Append(calls, <<"aggregate", "ratings_userinfo_genres">>)
          /\ out' = Append(out, IF o.raised
                                THEN <<"Error during aggregation into", "ratings_userinfo_genres">>
                                ELSE JoinPopulated)
          /\ Raise(o)
    /\ pc' = "stats_age"
    /\ UNCHANGED <<files, charts, runs>>

populate_user_movie_info_if_needed ==
    /\ pc = "join"
    /\ IF estimated_document_count(db.ratings_userinfo_genres) > 0
       THEN /\ out' = Append(out, <<"already has data. Skipping join step.", "ratings_userinfo_genres">>)
            /\ UNCHANGED <<db, calls, failures>>
       ELSE \E o \in aggregate_out(db.ratings_userinfo_genres,
                                   JoinPipeline(db.ratings, db.users, db.movies), MayRaise) :
               /\ db' = [db EXCEPT !.ratings_userinfo_genres = o.col]
               /\ calls' = Append(calls, <<"aggregate", "ratings_userinfo_genres">>)
               /\ out' = Append(out, IF o.raised
                                     THEN <<"Error during aggregation into", "ratings_userinfo_genres">>
                                     ELSE JoinPopulated)
               /\ Raise(o)
    /\ pc' = "stats_age"
    /\ UNCHANGED <<files, charts, runs>>

build_and_insert_stats(target, group_field, genre_count, next) ==
    /\ IF estimated_document_count(db[target]) > 0
       THEN /\ out' = Append(out, <<"already has data. Skipping stats aggregation.", target>>)
            /\ UNCHANGED <<db, calls, failures>>
       ELSE \E o \in aggregate_out(db[target],
                                   StatsPipeline(db.ratings_userinfo_genres, group_field, genre_count),
                                   MayRaise) :
               /\ db' = [db EXCEPT ![target] = o.col]
               /\ calls' = Append(calls, <<"aggregate", target>>)
               /\ out' = Append(out, IF o.raised
                                     THEN <<"Error creating stats for", group_field>>
                                     ELSE StatsInserted(target))
               /\ Raise(o)
    /\ pc' = next
    /\ UNCHANGED <<files, charts, runs>>

\* populate_statistics_if_needed, its three calls
stats_age ==
    /\ pc = "stats_age"
    /\ build_and_insert_stats("age_genre_rating_stats", "age", GenreCount, "stats_gender")

stats_gender ==
    /\ pc = "stats_gender"
    /\ build_and_insert_stats("gender_genre_rating_stats", "gender", GenreCount, "stats_occupation")

stats_occupation ==
    /\ pc = "stats_occupation"
    /\ build_and_insert_stats("occupation_genre_rating_stats", "occupation", GenreCount, "plot")

plot_statistics ==
    /\ pc = "plot"
    /\ charts' =
         [age        |-> {age_to_group(d.age) : d \in DOMAIN db.age_genre_rating_stats},
          gender     |-> {d.gender : d \in DOMAIN db.gender_genre_rating_stats},
          occupation |-> {d.occupation : d \in DOMAIN db.occupation_genre_rating_stats}]
    /\ pc' = "finish"
    /\ UNCHANGED <<files, db, out, calls, runs, failures>>

\* the last statement of __main__
finish ==
    /\ pc = "finish"
    /\ out' = Append(out, AllTasksCompleted)
    /\ pc' = "done"
    /\ UNCHANGED <<files, db, calls, charts, runs, failures>>

\* the script is started again on the same database
rerun ==
    /\ pc = "done"
    /\ runs < MaxRuns
    /\ runs' = runs + 1
    /\ pc' = "populate_data"
    /\ out' = <<>>
    /\ calls' = <<>>
    /\ charts' = NoCharts
    /\ UNCHANGED <<files, db, failures>>

Next ==
    \/ populate_data_if_needed
    \/ load_users
    \/ load_movies
    \/ load_ratings
    \/ populate_user_movie_info_if_needed
    \/ stats_age
    \/ stats_gender
    \/ stats_occupation
    \/ plot_statistics
    \/ finish
    \/ rerun

Spec == Init /\ [][Next]_vars

\* --------------------------------- the state a finished run leaves to plot
\* the script about to plot, on a database that earlier runs populated from
\* a data set whose one user has age a
InitAge ==
    \E a \in 0 .. MaxAge :
       LET u   == [user_id |-> 1, age |-> a, gender |-> "F", occupation |-> "student"]
           rug == JoinPipeline(One(RatingRecord(1, 1, 1)), One(u), One(MovieRecord(1)))
       IN  /\ files = [users |-> <<u>>, movies |-> <<MovieRecord(1)>>,
                       ratings |-> <<RatingRecord(1, 1, 1)>>]
           /\ db = [users |-> One(u), movies |-> One(MovieRecord(1)),
                    ratings |-> One(RatingRecord(1, 1, 1)),
                    ratings_userinfo_genres |-> rug,
                    age_genre_rating_stats |-> StatsPipeline(rug, "age", GenreCount),
                    gender_genre_rating_stats |-> StatsPipeline(rug, "gender", GenreCount),
                    occupation_genre_rating_stats |-> StatsPipeline(rug, "occupation", GenreCount)]
           /\ pc = "plot"
           /\ out = << <<"Data already exists in MongoDB collections. Skipping data load.", "">>,
                       <<"already has data. Skipping join step.", "ratings_userinfo_genres">>,
                       <<"already has data. Skipping stats aggregation.", "age_genre_rating_stats">>,
                       <<"already has data. Skipping stats aggregation.", "gender_genre_rating_stats">>,
                       <<"already has data. Skipping stats aggregation.", "occupation_genre_rating_stats">> >>
           /\ calls = <<>>
           /\ charts = NoCharts
           /\ runs = 1
           /\ failures = 0

NextAge == plot_statistics \/ finish

SpecAge == InitAge /\ [][NextAge]_vars

\* ============================================================== claims
Last(s) == s[Len(s)]

Printed(line) == \E i \in 1 .. Len(out) : out[i] = line

RawCollections == {"users", "movies", "ratings"}

AllPopulated == \A c \in Collections : Count(db[c]) > 0

\* C1: once all seven collections are non-empty no step of the script writes:
\* the collections stay as they are and no insert_many or aggregate is issued,
\* so a whole further run leaves the seven collections as it found them.
C1_RerunIdempotent ==
    [][AllPopulated => (db' = db /\ (calls' = calls \/ calls' = <<>>))]_vars

C1_Witness ==
    /\ pc = "done"
    /\ runs = 2
    /\ AllPopulated
    /\ calls = <<>>
    /\ Len(out) = 6

\* C2: populate_data_if_needed goes on to load exactly when users, movies and
\* ratings are all empty; with any one of them non-empty it skips the load.
C2_SkipIfAnyPopulated ==
    [][pc = "populate_data" =>
         (pc' = "load_users" <=> \A c \in RawCollections : Count(db[c]) = 0)]_vars

\* the documents of users / movies with a given id, and the join's output
UsersWith(id) == SumOver({u \in DOMAIN db.users : u.user_id = id}, db.users)

MoviesWith(id) == SumOver({m \in DOMAIN db.movies : m.movie_id = id}, db.movies)

Yield(r) == UsersWith(r.user_id) * MoviesWith(r.movie_id)

JoinSucceeded == pc = "stats_age" /\ out # <<>> /\ Last(out) = JoinPopulated

\* C3: after a successful join into an empty ratings_userinfo_genres, each
\* rating contributes (users with its user_id) * (movies with its movie_id)
\* documents, each carrying the rating's user_id, movie_id and rating, the
\* user's age, gender and occupation and the movie's 19 genre flags; nothing
\* else is in the collection.
C3_JoinResult ==
    JoinSucceeded =>
      LET R == db.ratings
          U == db.users
          M == db.movies
          J == db.ratings_userinfo_genres
          Carry(t) == [user_id |-> t[1].user_id, movie_id |-> t[1].movie_id,
                       rating |-> t[1].rating, age |-> t[2].age, gender |-> t[2].gender,
                       occupation |-> t[2].occupation, genre |-> t[3].genre]
          Match == {t \in (DOMAIN R) \X (DOMAIN U) \X (DOMAIN M) :
                      t[2].user_id = t[1].user_id /\ t[3].movie_id = t[1].movie_id}
          Weight == [t \in Match |-> R[t[1]] * U[t[2]] * M[t[3]]]
          Same(r) == {q \in DOMAIN R : /\ q.user_id = r.user_id
                                       /\ q.movie_id = r.movie_id
                                       /\ q.rating = r.rating}
          Of(r) == {d \in DOMAIN J : /\ d.user_id = r.user_id
                                     /\ d.movie_id = r.movie_id
                                     /\ d.rating = r.rating}
      IN  /\ \A r \in DOMAIN R : SumOver(Of(r), J) = SumOver(Same(r), R) * Yield(r)
          /\ \A d \in (DOMAIN J) \cup {Carry(t) : t \in Match} :
                CopiesIn(d, J) = SumOver({t \in Match : Carry(t) = d}, Weight)
          /\ \A d \in DOMAIN J : DOMAIN d.genre = 0 .. 18
          /\ Count(J) = SumOver(DOMAIN R, [r \in DOMAIN R |-> R[r] * Yield(r)])

C3_Witness ==
    /\ JoinSucceeded
    /\ \E r \in DOMAIN db.ratings : Yield(r) >= 2
    /\ \E r \in DOMAIN db.ratings : UsersWith(r.user_id) # MoviesWith(r.movie_id)
    /\ Count(db.ratings_userinfo_genres) >= 2

StatsSteps ==
    { <<"age_genre_rating_stats", "age", "stats_gender">>,
      <<"gender_genre_rating_stats", "gender", "stats_occupation">>,
      <<"occupation_genre_rating_stats", "occupation", "plot">> }

\* build_and_insert_stats has just written target
StatsSucceeded(s) == pc = s[3] /\ out # <<>> /\ Last(out) = StatsInserted(s[1])

\* the source documents with group value v and genre flag i set
Flagged(field, v, i) ==
    SumOver({d \in DOMAIN db.ratings_userinfo_genres : d[field] = v /\ d.genre[i] = 1},
            db.ratings_userinfo_genres)

FlagsSet(d) == Cardinality({i \in GenreIdx : d.genre[i] = 1})

\* C4: after a successful build_and_insert_stats into an empty target, the
\* target holds one document per (group value, genre index) that some source
\* document has with the flag 1, its count is the number of those source
\* documents, no other document is there, and the counts add up to the number
\* of set flags over the source.
C4_StatsResult ==
    \A s \in StatsSteps :
       StatsSucceeded(s) =>
         LET T == db[s[1]]
             S == db.ratings_userinfo_genres
             V == {d[s[2]] : d \in DOMAIN S} \cup {t[s[2]] : t \in DOMAIN T}
             I == GenreIdx \cup {t.genre_index : t \in DOMAIN T}
             At(v, i) == {t \in DOMAIN T : t[s[2]] = v /\ t.genre_index = i}
         IN  /\ \A v \in V, i \in I :
                  LET n == IF i \in GenreIdx THEN Flagged(s[2], v, i) ELSE 0
                  IN  /\ SumOver(At(v, i), T) = (IF n > 0 THEN 1 ELSE 0)
                      /\ \A t \in At(v, i) : t.count = n
             /\ SumOver(DOMAIN T, [t \in DOMAIN T |-> T[t] * t.count])
                  = SumOver(DOMAIN S, [d \in DOMAIN S |-> S[d] * FlagsSet(d)])

C4_Witness ==
    /\ StatsSucceeded(<<"age_genre_rating_stats", "age", "stats_gender">>)
    /\ \E t \in DOMAIN db.age_genre_rating_stats : t.count >= 2
    /\ \E d \in DOMAIN db.ratings_userinfo_genres : FlagsSet(d) = 2
    /\ \E d \in DOMAIN db.ratings_userinfo_genres :
          \E i \in GenreIdx : Flagged("age", d.age, i) = 0

\* C5: when "All tasks completed successfully." has been printed, users,
\* movies and ratings hold the records of their files and the joined and the
\* three statistics collections are populated.
C5_SuccessMeansComplete ==
    Printed(AllTasksCompleted) =>
      /\ \A c \in RawCollections : SeqToBag(files[c]) \sqsubseteq db[c]
      /\ \A c \in Collections \ RawCollections : Count(db[c]) > 0

LoadCalls == << <<"insert_many", "users">>, <<"insert_many", "movies">>, <<"insert_many", "ratings">> >>

Warned == \E i \in 1 .. Len(out) : out[i][1] = "Warning: could not insert into"

\* C6: once an insert_many of populate_data_if_needed has raised, the warning
\* is printed and the function still goes through its inserts in the order
\* users, movies, ratings and ends by printing "Data population complete.".
C6_BestEffortLoad ==
    Warned =>
      /\ pc # "load_users"
      /\ pc = "load_movies" => calls = SubSeq(LoadCalls, 1, 1)
      /\ pc = "load_ratings" => calls = SubSeq(LoadCalls, 1, 2)
      /\ pc \notin {"load_movies", "load_ratings"} =>
           /\ Len(calls) >= 3
           /\ SubSeq(calls, 1, 3) = LoadCalls
           /\ \E i \in 1 .. Len(out) :
                 /\ out[i] = DataPopulationComplete
                 /\ \A j \in 1 .. Len(out) :
                       out[j][1] = "Warning: could not insert into" => j < i

C6_Witness ==
    /\ pc = "join"
    /\ out = << <<"Warning: could not insert into", "users">>, DataPopulationComplete >>
    /\ calls = LoadCalls
    /\ Count(db.users) < Len(files.users)
    /\ Count(db.ratings) = Len(files.ratings)

DigitValue ==
    [c \in {"0", "1", "2", "3", "4", "5", "6", "7", "8", "9"} |->
       CASE c = "0" -> 0 [] c = "1" -> 1 [] c = "2" -> 2 [] c = "3" -> 3 [] c = "4" -> 4
         [] c = "5" -> 5 [] c = "6" -> 6 [] c = "7" -> 7 [] c = "8" -> 8 [] c = "9" -> 9]

IsDecimal(s) ==
    /\ Len(s) >= 1
    /\ \A i \in 1 .. Len(s) : s[i] \in DOMAIN DigitValue
    /\ Len(s) > 1 => s[1] # "0"

RECURSIVE ParseInt(_)
ParseInt(s) ==
    IF Len(s) = 1 THEN DigitValue[s[1]]
    ELSE 10 * ParseInt(SubSeq(s, 1, Len(s) - 1)) + DigitValue[s[Len(s)]]

\* g reads "L-U" in decimal
Reads(g, L, U) ==
    \E k \in 1 .. Len(g) :
       /\ g[k] = "-"
       /\ IsDecimal(SubSeq(g, 1, k - 1))
       /\ IsDecimal(SubSeq(g, k + 1, Len(g)))
       /\ ParseInt(SubSeq(g, 1, k - 1)) = L
       /\ ParseInt(SubSeq(g, k + 1, Len(g))) = U

Decade(age) == 10 * (age \div 10)

GroupOf(age, g) ==
    /\ Reads(g, Decade(age), Decade(age) + 9)
    /\ Decade(age) <= age /\ age <= Decade(age) + 9
    /\ age <= 9 => g = <<"0", "-", "9">>
    /\ age = 23 => g = <<"2", "0", "-", "2", "9">>

\* C7: the age groups plot_statistics computes with age_to_group are, for
\* every age >= 0 in the age statistics, the decade range "L-U" with
\* L = 10 * floor(age / 10), U = L + 9 and L <= age <= U ("0-9" for 0..9,
\* "20-29" for 23), and no other group is computed.
C7_AgeToGroup ==
    pc \in {"finish", "done"} =>
      /\ \A d \in DOMAIN db.age_genre_rating_stats :
            d.age >= 0 => \E g \in charts.age : GroupOf(d.age, g)
      /\ \A g \in charts.age :
            \E d \in DOMAIN db.age_genre_rating_stats : GroupOf(d.age, g)

C7_Witness ==
    /\ pc = "done"
    /\ \E d \in DOMAIN db.age_genre_rating_stats : d.age = MaxAge
    /\ Cardinality(charts.age) = 1
    /\ \A g \in charts.age : Len(g) = 7

====
